---- MODULE Spec2Model ----
(***************************************************************************)
(* DailyPuzzleStats: the Vue/d3 chart components, as state machines.       *)
(*                                                                         *)
(*   Trend     src/unnamed/part_000            bar+line chart, dataFile    *)
(*   Played    src/src/components/GamesPlayed.vue   bar+line chart         *)
(*   Daily     src/src/components/GamesCalendar.vue (third script block)   *)
(*   Breakdown src/src/components/GamesBreakdown.vue   donut by game       *)
(*   Calendar  src/src/components/GamesCalendar.vue (first script block)   *)
(*   Leaderboard src/src/components/GamesCalendar.vue (second script block)*)
(*   GameStats src/src/components/GameStats.vue      three counters         *)
(*                                                                         *)
(* Representation.                                                         *)
(*   A CSV text field is a tuple: a Date field that matches the pattern    *)
(*   digits/digits/digits is <<M, D, Y>>, any other text is <<>>; a Person *)
(*   is the tuple of its UTF-16 code units (JavaScript's default sort      *)
(*   compares these); a Game is a string (only compared for equality).     *)
(*   A JavaScript Date at local midnight is the number of days since       *)
(*   1 Jan 2024 (getTime() is a strictly increasing function of it); the   *)
(*   null that d3.timeParse returns is NoDate.                             *)
(*   Lengths on the horizontal axis of a bar+line chart are counted in     *)
(*   twentieths of a band step, so that band centres and the midpoints     *)
(*   between them are whole numbers.                                       *)
(***************************************************************************)
EXTENDS Integers, Sequences, FiniteSets, TLC

VARIABLES
    comp,           \* the component instance that is mounted
    dataFile,       \* props.dataFile is given
    csv,            \* the rows the data file holds (what d3.csv resolves to)
    pc,             \* onMounted: "unmounted" | "fetching" | "done"
    fetched,        \* the d3.csv promise: "no" | "resolved" | "rejected"
    thrown,         \* "none", or the error that escaped the last handler
    rawData,        \* rawData / rawEntries: the loaded entries
    players,        \* players ref: the participant options
    selectedPlayer, \* selectedPlayer ref (v-model of the <select>)
    selectedIndex,  \* which <option> of the <select> is selected (0 = All)
    dailyCounts,    \* DailyCount[] of a bar+line chart
    cumulative,     \* Cumulative[] of a bar+line chart
    container,      \* children of the chart element, one record per rendering
    overlay,        \* the interaction overlay rect is installed
    hover,          \* what the last mousemove resolved and wrote
    leftChart,      \* leaderboard 'Total Entries': the rows of the bar chart drawn
    rightChart,     \* leaderboard 'Days Played': the rows of the bar chart drawn
    stats           \* GameStats: gamesCount, playersCount, typesCount

vars ==
    << comp, dataFile, csv, pc, fetched, thrown, rawData, players, selectedPlayer,
       selectedIndex, dailyCounts, cumulative, container, overlay, hover,
       leftChart, rightChart, stats >>

----------------------------------------------------------------------------
(* Sequences *)

Range(s) == { s[i] : i \in 1..Len(s) }

Map(s, F(_)) == [ i \in 1..Len(s) |-> F(s[i]) ]

RECURSIVE SumSeq(_)
SumSeq(s) == IF s = << >> THEN 0 ELSE Head(s) + SumSeq(Tail(s))

Prefix(s, k) == SubSeq(s, 1, k)

\* all sequences over S of length 0..n
SeqsUpTo(S, n) == UNION { [ 1..k -> S ] : k \in 0..n }

Max(a, b) == IF a >= b THEN a ELSE b

----------------------------------------------------------------------------
(* JavaScript Date, local time, at midnight *)

NoDate == -1

IsLeap(y) == (y % 4 = 0 /\ y % 100 # 0) \/ y % 400 = 0

DaysInYear(y) == IF IsLeap(y) THEN 366 ELSE 365

MonthLength(y, m) ==
    IF m = 1 THEN (IF IsLeap(y) THEN 29 ELSE 28)
    ELSE IF m \in {3, 5, 8, 10} THEN 30 ELSE 31

RECURSIVE DaysBeforeYear(_)
DaysBeforeYear(y) == IF y <= 2024 THEN 0 ELSE DaysInYear(y - 1) + DaysBeforeYear(y - 1)

RECURSIVE DaysBeforeMonth(_, _)
DaysBeforeMonth(y, m) ==
    IF m <= 0 THEN 0 ELSE MonthLength(y, m - 1) + DaysBeforeMonth(y, m - 1)

\* new Date(year, monthIndex, day): monthIndex is 0-based; a monthIndex of 12
\* or a day outside the month carries over, as the Date constructor does.
NewDate(y, m, d) ==
    LET yy == y + (m \div 12)
        mm == m % 12
    IN  DaysBeforeYear(yy) + DaysBeforeMonth(yy, mm) + (d - 1)

getFullYear(t) == CHOOSE y \in 2024..2030 : DaysBeforeYear(y) <= t /\ t < DaysBeforeYear(y + 1)

getMonth(t) ==
    LET y == getFullYear(t)
    IN  CHOOSE m \in 0..11 : NewDate(y, m, 1) <= t /\ t < NewDate(y, m + 1, 1)

getDate(t) == t - NewDate(getFullYear(t), getMonth(t), 1) + 1

\* 0 = Sunday; 1 Jan 2024 was a Monday
getDay(t) == (t + 1) % 7

\* d3.timeParse('%m/%d/%Y'): null unless the text has the three numeric fields
parseDate(text) ==
    IF Len(text) # 3 THEN NoDate
    ELSE NewDate(text[3], text[1] - 1, text[2])

\* dt.setDate(dt.getDate() + 1)
NextDay(t) == NewDate(getFullYear(t), getMonth(t), getDate(t) + 1)

----------------------------------------------------------------------------
(* JavaScript strings as code-unit tuples *)

RECURSIVE StrLess(_, _)
StrLess(a, b) ==
    IF b = << >> THEN FALSE
    ELSE IF a = << >> THEN TRUE
    ELSE IF Head(a) # Head(b) THEN Head(a) < Head(b)
    ELSE StrLess(Tail(a), Tail(b))

All == << 65, 108, 108 >>       \* 'All'

----------------------------------------------------------------------------
(* The row conversion of the bar+line charts and of the calendar: every row *)
(* of the file becomes an entry; a Date that does not parse becomes null.   *)

ParseRow(d) == [ Date |-> parseDate(d.Date), Person |-> d.Person, Game |-> d.Game ]

ParseRows(rows) == Map(rows, ParseRow)

----------------------------------------------------------------------------
(* Day buckets and cumulative totals of the bar+line charts *)

\* d3.extent(rawData, d => d.Date): null values are skipped; with no value
\* left both ends are undefined
extent(data) ==
    LET ts == { data[i].Date : i \in 1..Len(data) } \ { NoDate }
    IN  IF ts = {} THEN << NoDate, NoDate >>
        ELSE << CHOOSE t \in ts : \A u \in ts : t <= u,
                CHOOSE t \in ts : \A u \in ts : u <= t >>

\* for (let dt = new Date(minDate); dt <= maxDate; dt.setDate(dt.getDate() + 1))
\*   dates.push(new Date(dt));
\* new Date(undefined) is an invalid date, and no comparison with it is true
RECURSIVE DatesFrom(_, _)
DatesFrom(dt, maxDate) ==
    IF dt = NoDate \/ maxDate = NoDate THEN << >>
    ELSE IF dt <= maxDate THEN << dt >> \o DatesFrom(NextDay(dt), maxDate)
    ELSE << >>

\* new Map(dates.map((d, i) => [d.getTime(), i + 1])).get(t): the last pair
\* with the key wins
dateToDay(dates, t) ==
    CHOOSE i \in 1..Len(dates) :
        dates[i] = t /\ \A j \in (i + 1)..Len(dates) : dates[j] # t

\* r.Date.getTime() on a null Date is a TypeError; the filter callback runs
\* once there is a date to count for
CountThrows(data, dates) ==
    dates # << >> /\ \E i \in 1..Len(data) : data[i].Date = NoDate

DailyCountsOf(data, dates) ==
    [ i \in 1..Len(dates) |->
        [ day   |-> dateToDay(dates, dates[i]),
          count |-> Len(SelectSeq(data, LAMBDA r : r.Date = dates[i])) ] ]

\* let run = 0; dailyCounts.map(d => { run += d.count; return {day, total: run} })
RECURSIVE RunningFrom(_, _)
RunningFrom(dc, run) ==
    IF dc = << >> THEN << >>
    ELSE LET r == run + Head(dc).count
         IN  << [ day |-> Head(dc).day, total |-> r ] >> \o RunningFrom(Tail(dc), r)

\* the running sum forgotten: each total is the day's own count
CumulativeNoRun(dc) == Map(dc, LAMBDA d : [ day |-> d.day, total |-> d.count ])

CumulativeOf(dc) == RunningFrom(dc, 0)

\* Array.from({ length: 30 }, (_, i) => ({ day: i + 1, count: 0 }))
FallbackDays == 30

FallbackCounts == [ i \in 1..FallbackDays |-> [ day |-> i, count |-> 0 ] ]

FallbackCumulative == Map(FallbackCounts, LAMBDA d : [ day |-> d.day, total |-> 0 ])

----------------------------------------------------------------------------
(* The band scale and the hover resolver *)

\* .padding(0.1): inner and outer padding, in tenths
PaddingTenths == 1

\* the plot width (900 - margin.left - margin.right px), in the unit that
\* makes one band step of an n-band scale 20 units
PlotWidth(n) == 20 * n + 2

\* d3.scaleBand: step = (stop - start) / max(1, n - paddingInner + 2 * paddingOuter)
BandStep(n) == (10 * PlotWidth(n)) \div Max(10, 10 * n - PaddingTenths + 2 * PaddingTenths)

\* start += (stop - start - step * (n - paddingInner)) * align, with align = 0.5
BandStart(n) == (10 * PlotWidth(n) - BandStep(n) * (10 * n - PaddingTenths)) \div 20

\* bandwidth = step * (1 - paddingInner)
Bandwidth(n) == (BandStep(n) * (10 - PaddingTenths)) \div 10

\* x(day): the start of the band of `day` in the domain dailyCounts.map(d => d.day)
xBand(dc, day) ==
    LET i == CHOOSE k \in 1..Len(dc) : dc[k].day = day
    IN  BandStart(Len(dc)) + BandStep(Len(dc)) * (i - 1)

\* dailyCounts.map(d => x(d.day)! + x.bandwidth() / 2)
Centers(dc) == [ i \in 1..Len(dc) |-> xBand(dc, dc[i].day) + Bandwidth(Len(dc)) \div 2 ]

\* d3 bisector.left(a, x, lo, hi); indexes are 0-based as in JavaScript
RECURSIVE BisectLeft(_, _, _, _)
BisectLeft(a, x, lo, hi) ==
    IF lo < hi
    THEN LET mid == (lo + hi) \div 2
         IN  IF a[mid + 1] < x THEN BisectLeft(a, x, mid + 1, hi)
             ELSE BisectLeft(a, x, lo, mid)
    ELSE lo

\* d3 bisector.center(a, x):
\*   const i = left(a, x, lo, hi - 1);
\*   return i > lo && delta(a[i - 1], x) > -delta(a[i], x) ? i - 1 : i;
\* the comparison of the two distances turned round
BisectCenterFlipped(a, x) ==
    LET i == BisectLeft(a, x, 0, Len(a) - 1)
    IN  IF i > 0 /\ (a[i] - x) < -(a[i + 1] - x) THEN i - 1 ELSE i

\* a tie given to the lower index
BisectCenterTieLow(a, x) ==
    LET i == BisectLeft(a, x, 0, Len(a) - 1)
    IN  IF i > 0 /\ (a[i] - x) >= -(a[i + 1] - x) THEN i - 1 ELSE i

BisectCenter(a, x) ==
    LET i == BisectLeft(a, x, 0, Len(a) - 1)
    IN  IF i > 0 /\ (a[i] - x) > -(a[i + 1] - x) THEN i - 1 ELSE i

NoHover == [ mx |-> -1, idx |-> -1, lineText |-> -1, barText |-> -1 ]

----------------------------------------------------------------------------
(* What a chart element holds: one record per child appended to it *)

NoGrid == [ year |-> 0, month |-> 0, daysInMonth |-> 0, startDay |-> 0, rows |-> 0 ]

\* kind: "svg" (a chart), "text" (a placeholder or message), "partial" (an
\* svg whose drawing was cut short by an exception); from: the entries the
\* drawing was computed from
Rendering(kind, from) ==
    [ kind |-> kind, from |-> from, data |-> << >>, total |-> 0, arcs |-> << >>,
      ready |-> << >>, grid |-> NoGrid, cells |-> << >> ]

\* const gamesCount = ref(0), playersCount = ref(0), typesCount = ref(0)
NoStats == [ gamesCount |-> 0, playersCount |-> 0, typesCount |-> 0 ]

propVars == << comp, dataFile, csv >>

filterVars == << players, selectedPlayer, selectedIndex >>

barVars == << dailyCounts, cumulative, overlay, hover >>

boardVars == << leftChart, rightChart, stats >>

----------------------------------------------------------------------------
(* Inputs of the bar+line charts *)

MaxBarRows == 3

BarDates == { << 2, 27, 2025 >>, << 2, 28, 2025 >>, << 3, 1, 2025 >> }

BarRows ==
    [ Date : BarDates \cup { << >> }, Person : { << 65 >> }, Game : { "Chess" } ]

----------------------------------------------------------------------------
(* Trend: src/unnamed/part_000 *)

\* lines 40-215: everything after the data is in rawData
TrendRender(data) ==
    IF Len(data) > 0
    THEN LET ext   == extent(data)
             dates == DatesFrom(ext[1], ext[2])
         IN  IF CountThrows(data, dates)
             THEN /\ thrown' = "TypeError"
                  /\ container' = Append(container, Rendering("partial", data))
                  /\ UNCHANGED << dailyCounts, cumulative, overlay >>
             ELSE /\ dailyCounts' = DailyCountsOf(data, dates)
                  /\ cumulative' = CumulativeOf(dailyCounts')
                  /\ container' = Append(container, Rendering("svg", data))
                  /\ overlay' = TRUE
                  /\ thrown' = "none"
    ELSE /\ dailyCounts' = FallbackCounts
         /\ cumulative' = FallbackCumulative
         /\ container' = Append(container, Rendering("text", data))
         /\ thrown' = "none"
         /\ UNCHANGED overlay

TrendMounted ==
    /\ comp = "Trend" /\ pc = "unmounted"
    /\ IF dataFile
       THEN /\ pc' = "fetching"
            /\ UNCHANGED << thrown, dailyCounts, cumulative, container, overlay >>
       ELSE /\ pc' = "done"
            /\ TrendRender(rawData)
    /\ UNCHANGED << propVars, boardVars, fetched, rawData, filterVars, hover >>

TrendFetchResolved ==
    /\ comp = "Trend" /\ pc = "fetching"
    /\ fetched' = "resolved"
    /\ rawData' = ParseRows(csv)
    /\ pc' = "done"
    /\ TrendRender(rawData')
    /\ UNCHANGED << propVars, boardVars, filterVars, hover >>

\* catch (err) { console.warn(...) }: rawData stays []
TrendFetchRejected ==
    /\ comp = "Trend" /\ pc = "fetching"
    /\ fetched' = "rejected"
    /\ pc' = "done"
    /\ TrendRender(rawData)
    /\ UNCHANGED << propVars, boardVars, rawData, filterVars, hover >>

\* the offsets a pointer over the overlay can have: 0 .. width
PointerOffsets == 0..PlotWidth(Len(dailyCounts))

\* the mousemove handler of the overlay; cumulative[idx] is undefined when
\* idx is no index of the list, and c.day is then a TypeError
Resolve(mx) ==
    LET idx == BisectCenter(Centers(dailyCounts), mx)
    IN  IF idx < Len(cumulative) /\ idx < Len(dailyCounts)
        THEN /\ hover' = [ mx |-> mx, idx |-> idx,
                           lineText |-> cumulative[idx + 1].total,
                           barText |-> dailyCounts[idx + 1].count ]
             /\ thrown' = "none"
        ELSE /\ thrown' = "TypeError"
             /\ UNCHANGED hover

TrendMouseMove ==
    /\ comp = "Trend" /\ overlay
    /\ \E mx \in PointerOffsets : Resolve(mx)
    /\ UNCHANGED << propVars, boardVars, pc, fetched, rawData, filterVars, dailyCounts,
                    cumulative, container, overlay >>

----------------------------------------------------------------------------
(* Played: src/src/components/GamesPlayed.vue *)
(* Daily:  src/src/components/GamesCalendar.vue, lines 331-513 (same code) *)

\* lines 28-202: no check for an empty rawData, no try around the fetch
PlayedRender(data) ==
    LET ext   == extent(data)
        dates == DatesFrom(ext[1], ext[2])
    IN  IF CountThrows(data, dates)
        THEN /\ thrown' = "TypeError"
             /\ UNCHANGED << dailyCounts, cumulative, container, overlay >>
        ELSE /\ dailyCounts' = DailyCountsOf(data, dates)
             /\ cumulative' = CumulativeOf(dailyCounts')
             /\ container' = Append(container, Rendering("svg", data))
             /\ overlay' = TRUE
             /\ thrown' = "none"

PlayedMounted ==
    /\ comp = "Played" /\ pc = "unmounted"
    /\ pc' = "fetching"
    /\ UNCHANGED << propVars, boardVars, fetched, thrown, rawData, filterVars, barVars, container >>

PlayedFetchResolved ==
    /\ comp = "Played" /\ pc = "fetching"
    /\ fetched' = "resolved"
    /\ rawData' = ParseRows(csv)
    /\ pc' = "done"
    /\ PlayedRender(rawData')
    /\ UNCHANGED << propVars, boardVars, filterVars, hover >>

\* the await throws and nothing catches it
PlayedFetchRejected ==
    /\ comp = "Played" /\ pc = "fetching"
    /\ fetched' = "rejected"
    /\ pc' = "done"
    /\ thrown' = "FetchError"
    /\ UNCHANGED << propVars, boardVars, rawData, filterVars, barVars, container >>

PlayedMouseMove ==
    /\ comp = "Played" /\ overlay
    /\ \E mx \in PointerOffsets : Resolve(mx)
    /\ UNCHANGED << propVars, boardVars, pc, fetched, rawData, filterVars, dailyCounts,
                    cumulative, container, overlay >>

DailyMounted ==
    /\ comp = "Daily" /\ pc = "unmounted"
    /\ pc' = "fetching"
    /\ UNCHANGED << propVars, boardVars, fetched, thrown, rawData, filterVars, barVars, container >>

DailyFetchResolved ==
    /\ comp = "Daily" /\ pc = "fetching"
    /\ fetched' = "resolved"
    /\ rawData' = ParseRows(csv)
    /\ pc' = "done"
    /\ PlayedRender(rawData')
    /\ UNCHANGED << propVars, boardVars, filterVars, hover >>

DailyFetchRejected ==
    /\ comp = "Daily" /\ pc = "fetching"
    /\ fetched' = "rejected"
    /\ pc' = "done"
    /\ thrown' = "FetchError"
    /\ UNCHANGED << propVars, boardVars, rawData, filterVars, barVars, container >>

DailyMouseMove ==
    /\ comp = "Daily" /\ overlay
    /\ \E mx \in PointerOffsets : Resolve(mx)
    /\ UNCHANGED << propVars, boardVars, pc, fetched, rawData, filterVars, dailyCounts,
                    cumulative, container, overlay >>

----------------------------------------------------------------------------
(* Aggregation: participants and counts per key *)

\* Array.from(new Set(keys)): the distinct keys, in first-seen order
RECURSIVE DistinctInto(_, _)
DistinctInto(seen, rest) ==
    IF rest = << >> THEN seen
    ELSE IF Head(rest) \in Range(seen) THEN DistinctInto(seen, Tail(rest))
    ELSE DistinctInto(Append(seen, Head(rest)), Tail(rest))

Distinct(keys) == DistinctInto(<< >>, keys)

\* Array.prototype.sort() without a comparator: ascending by UTF-16 code units
RECURSIVE InsertSorted(_, _)
InsertSorted(sorted, x) ==
    IF sorted = << >> THEN << x >>
    ELSE IF StrLess(x, Head(sorted)) THEN << x >> \o sorted
    ELSE << Head(sorted) >> \o InsertSorted(Tail(sorted), x)

RECURSIVE SortInto(_, _)
SortInto(sorted, rest) ==
    IF rest = << >> THEN sorted ELSE SortInto(InsertSorted(sorted, Head(rest)), Tail(rest))

SortStrings(keys) == SortInto(<< >>, keys)

\* the participant options: Array.from(new Set(rows.map(d => d.Person))).sort()
PlayersOf(data) == SortStrings(Distinct(Map(data, LAMBDA d : d.Person)))

\* d3.rollup(values, v => v.length, key): a Map in first-seen order of the
\* keys, each with the number of values of that key
RECURSIVE RollupInto(_, _)
RollupInto(acc, keys) ==
    IF keys = << >> THEN acc
    ELSE LET k == Head(keys)
         IN  IF \E i \in 1..Len(acc) : acc[i].key = k
             THEN LET i == CHOOSE j \in 1..Len(acc) : acc[j].key = k
                  IN  RollupInto([ acc EXCEPT ![i].value = @ + 1 ], Tail(keys))
             ELSE RollupInto(Append(acc, [ key |-> k, value |-> 1 ]), Tail(keys))

\* a value joins the group before it only; a key that comes back opens a new group
RECURSIVE RollupRuns(_, _)
RollupRuns(acc, keys) ==
    IF keys = << >> THEN acc
    ELSE LET k == Head(keys)
             n == Len(acc)
         IN  IF n > 0 /\ acc[n].key = k
             THEN RollupRuns([ acc EXCEPT ![n].value = @ + 1 ], Tail(keys))
             ELSE RollupRuns(Append(acc, [ key |-> k, value |-> 1 ]), Tail(keys))

GroupCountRuns(dataArray) == RollupRuns(<< >>, Map(dataArray, LAMBDA d : d.Game))

\* Array.from(d3.rollup(dataArray, v => v.length, d => d.Game), ([key, value]) => ({key, value}))
GroupCount(dataArray) == RollupInto(<< >>, Map(dataArray, LAMBDA d : d.Game))

\* selectedPlayer === 'All' ? entries : entries.filter(d => d.Person === selectedPlayer)
FilterBy(data, selected) ==
    IF selected = All THEN data
    ELSE SelectSeq(data, LAMBDA d : d.Person = selected)

\* the <option> values of the <select>: "All", then the players
Options(ps) == << All >> \o ps

----------------------------------------------------------------------------
(* Pie layout: d3.pie().sort(null).value(d => d.value) *)
(* Angles are in units of 2 pi / total (d3: k = 2 pi / sum, a1 = a0 + v * k) *)

\* the arcs of `data`, in the order of data, with the angles given out in the
\* order of `order` (a sequence of the indexes of data)
PieArcs(data, order) ==
    LET pos(j)   == CHOOSE p \in 1..Len(order) : order[p] = j
        before(j) == SumSeq([ p \in 1..(pos(j) - 1) |-> data[order[p]].value ])
    IN  [ j \in 1..Len(data) |->
            [ data       |-> data[j],
              index      |-> pos(j) - 1,
              value      |-> data[j].value,
              startAngle |-> before(j),
              endAngle   |-> before(j) + data[j].value ] ]

\* d3.pie's default order when .sort(null) is left out: by value, descending
RECURSIVE InsertDescending(_, _, _)
InsertDescending(data, order, j) ==
    IF order = << >> THEN << j >>
    ELSE IF data[j].value > data[Head(order)].value THEN << j >> \o order
    ELSE << Head(order) >> \o InsertDescending(data, Tail(order), j)

RECURSIVE DescendingOrder(_, _)
DescendingOrder(data, n) ==
    IF n = 0 THEN << >> ELSE InsertDescending(data, DescendingOrder(data, n - 1), n)

PieLayoutSorted(data) == PieArcs(data, DescendingOrder(data, Len(data)))

\* .sort(null): input order
PieLayout(data) == PieArcs(data, [ i \in 1..Len(data) |-> i ])

\* const threshold = 0.01, in hundredths
ThresholdPercent == 1

\* the threshold missed by the slice that is exactly at it
DataReadyStrict(arcs, total) ==
    SelectSeq(arcs, LAMBDA d : 100 * d.data.value > ThresholdPercent * total)

\* arcs.filter(d => d.data.value / total >= threshold): the slices that get a
\* polyline and a text label
DataReady(arcs, total) ==
    SelectSeq(arcs, LAMBDA d : 100 * d.data.value >= ThresholdPercent * total)

\* drawChart, lines 60-155: the donut of the counts `data`
DrawPie(from, data) ==
    LET total == SumSeq(Map(data, LAMBDA d : d.value))
        arcs  == PieLayout(data)
    IN  [ Rendering("svg", from) EXCEPT
            !.data = data, !.total = total, !.arcs = arcs,
            !.ready = DataReady(arcs, total) ]

\* drawChart(dataArray) of GamesBreakdown.vue: what it appends to the container
DrawChart(dataArray) ==
    IF Len(dataArray) = 0 THEN Rendering("text", dataArray)
    ELSE DrawPie(dataArray, GroupCount(dataArray))

----------------------------------------------------------------------------
(* Calendar layout: drawCalendar of GamesCalendar.vue *)

\* d.Date.getTime() on a null Date is a TypeError
CalendarThrows(entries) ==
    entries # << >> /\ \E i \in 1..Len(entries) : entries[i].Date = NoDate

\* counts.get(ts) || 0
CountAt(counts, ts) ==
    IF \E i \in 1..Len(counts) : counts[i].key = ts
    THEN (CHOOSE c \in Range(counts) : c.key = ts).value
    ELSE 0

\* the slot counted from the day, not from the day before it
CalendarCellOffByOne(startDay, day, cnt) ==
    LET slot == startDay + day
    IN  [ day |-> day, row |-> slot \div 7, col |-> slot % 7, count |-> cnt ]

\* slot = startDay + (day - 1); row = floor(slot / cols); col = slot % cols
CalendarCell(startDay, day, cnt) ==
    LET slot == startDay + (day - 1)
    IN  [ day |-> day, row |-> slot \div 7, col |-> slot % 7, count |-> cnt ]

\* one row too many when the slots fill the last week exactly
FloorDivPlusOne(a, b) == (a \div b) + 1

\* Math.ceil(totalSlots / cols)
CeilDiv(a, b) == (a + b - 1) \div b

\* the entry with the smallest date, wherever it stands in the input
EarliestEntryDate(entries) ==
    CHOOSE t \in Range(Map(entries, LAMBDA d : d.Date)) :
        \A i \in 1..Len(entries) : t <= entries[i].Date

\* const first = entries[0].Date
FirstEntryDate(entries) == entries[1].Date

DrawCalendar(entries) ==
    IF Len(entries) = 0 THEN Rendering("text", entries)
    ELSE
    LET counts      == RollupInto(<< >>, Map(entries, LAMBDA d : d.Date))
        first       == FirstEntryDate(entries)
        year        == getFullYear(first)
        month       == getMonth(first)
        daysInMonth == getDate(NewDate(year, month + 1, 0))
        startDay    == getDay(NewDate(year, month, 1))
        rows        == CeilDiv(startDay + daysInMonth, 7)
    IN  [ Rendering("svg", entries) EXCEPT
            !.grid  = [ year |-> year, month |-> month, daysInMonth |-> daysInMonth,
                        startDay |-> startDay, rows |-> rows ],
            !.cells = [ day \in 1..daysInMonth |->
                          CalendarCell(startDay, day,
                                       CountAt(counts, NewDate(year, month, day))) ] ]

----------------------------------------------------------------------------
(* Breakdown: src/src/components/GamesBreakdown.vue *)

\* updateChart(): container.innerHTML = ''; drawChart(filtered)
BreakdownUpdateChart(data, selected) ==
    /\ container' = << DrawChart(FilterBy(data, selected)) >>
    /\ thrown' = "none"

\* the await left out: updateChart runs while the fetch is still in flight
BreakdownMountedNoAwait ==
    /\ comp = "Breakdown" /\ pc = "unmounted"
    /\ pc' = (IF dataFile THEN "fetching" ELSE "done")
    /\ BreakdownUpdateChart(rawData, selectedPlayer)
    /\ UNCHANGED << propVars, boardVars, fetched, rawData, filterVars, barVars >>

\* onMounted: await loadData(); updateChart().  Without a dataFile loadData
\* returns at once and the chart is drawn from the empty rawData.
BreakdownMounted ==
    /\ comp = "Breakdown" /\ pc = "unmounted"
    /\ IF dataFile
       THEN /\ pc' = "fetching"
            /\ UNCHANGED << thrown, container >>
       ELSE /\ pc' = "done"
            /\ BreakdownUpdateChart(rawData, selectedPlayer)
    /\ UNCHANGED << propVars, boardVars, fetched, rawData, filterVars, barVars >>

\* loadData after the await, then updateChart
BreakdownFetchResolved ==
    /\ comp = "Breakdown" /\ pc = "fetching"
    /\ fetched' = "resolved"
    /\ rawData' = Map(csv, LAMBDA d : [ Person |-> d.Person, Game |-> d.Game ])
    /\ players' = PlayersOf(rawData')
    /\ pc' = "done"
    /\ BreakdownUpdateChart(rawData', selectedPlayer)
    /\ UNCHANGED << propVars, boardVars, selectedPlayer, selectedIndex, barVars >>

\* catch { console.warn(...) }, then updateChart
BreakdownFetchRejected ==
    /\ comp = "Breakdown" /\ pc = "fetching"
    /\ fetched' = "rejected"
    /\ pc' = "done"
    /\ BreakdownUpdateChart(rawData, selectedPlayer)
    /\ UNCHANGED << propVars, boardVars, rawData, filterVars, barVars >>

\* the user picks another <option>: v-model stores its value in
\* selectedPlayer, then @change runs updateChart
BreakdownSelect ==
    /\ comp = "Breakdown" /\ pc # "unmounted"
    /\ \E k \in 0..Len(players) :
        /\ k # selectedIndex
        /\ selectedIndex' = k
        /\ selectedPlayer' = Options(players)[k + 1]
    /\ BreakdownUpdateChart(rawData, selectedPlayer')
    /\ UNCHANGED << propVars, boardVars, pc, fetched, rawData, players, barVars >>

----------------------------------------------------------------------------
(* Calendar: src/src/components/GamesCalendar.vue, lines 1-184 *)

\* updateChart() -> drawCalendar(filtered): chart.innerHTML = '' comes first,
\* so an exception in the drawing leaves the container empty
CalendarUpdateChart(data, selected) ==
    LET entries == FilterBy(data, selected)
    IN  IF CalendarThrows(entries)
        THEN /\ container' = << >>
             /\ thrown' = "TypeError"
        ELSE /\ container' = << DrawCalendar(entries) >>
             /\ thrown' = "none"

CalendarMounted ==
    /\ comp = "Calendar" /\ pc = "unmounted"
    /\ IF dataFile
       THEN /\ pc' = "fetching"
            /\ UNCHANGED << thrown, container >>
       ELSE /\ pc' = "done"
            /\ CalendarUpdateChart(rawData, selectedPlayer)
    /\ UNCHANGED << propVars, boardVars, fetched, rawData, filterVars, barVars >>

CalendarFetchResolved ==
    /\ comp = "Calendar" /\ pc = "fetching"
    /\ fetched' = "resolved"
    /\ rawData' = ParseRows(csv)
    /\ players' = PlayersOf(rawData')
    /\ pc' = "done"
    /\ CalendarUpdateChart(rawData', selectedPlayer)
    /\ UNCHANGED << propVars, boardVars, selectedPlayer, selectedIndex, barVars >>

\* catch { console.warn(...); rawEntries.value = [] }, then updateChart
CalendarFetchRejected ==
    /\ comp = "Calendar" /\ pc = "fetching"
    /\ fetched' = "rejected"
    /\ rawData' = << >>
    /\ pc' = "done"
    /\ CalendarUpdateChart(rawData', selectedPlayer)
    /\ UNCHANGED << propVars, boardVars, filterVars, barVars >>

CalendarSelect ==
    /\ comp = "Calendar" /\ pc # "unmounted"
    /\ \E k \in 0..Len(players) :
        /\ k # selectedIndex
        /\ selectedIndex' = k
        /\ selectedPlayer' = Options(players)[k + 1]
    /\ CalendarUpdateChart(rawData, selectedPlayer')
    /\ UNCHANGED << propVars, boardVars, pc, fetched, rawData, players, barVars >>

----------------------------------------------------------------------------
(* Leaderboard: src/src/components/GamesCalendar.vue, lines 185-330 *)

\* Date.prototype.toDateString(): weekday, month, day of the month and year
\* of the local date, e.g. "Thu Feb 27 2025"
toDateString(t) == << getDay(t), getMonth(t), getDate(t), getFullYear(t) >>

\* Array.from(new Set(entries.map(e => e.Person)))
LeaderboardPlayers(entries) == Distinct(Map(entries, LAMBDA e : e.Person))

\* players.map(player => ({ player, value: entries.filter(e => e.Person === player).length }))
TotalsOf(entries) ==
    Map(LeaderboardPlayers(entries),
        LAMBDA p : [ player |-> p,
                     value  |-> Len(SelectSeq(entries, LAMBDA e : e.Person = p)) ])

\* daysSet.get(player): the Set of the toDateString() texts of the player's entries
DaysSet(entries, player) ==
    { toDateString(entries[i].Date) : i \in { j \in 1..Len(entries) : entries[j].Person = player } }

\* players.map(player => ({ player, value: daysSet.get(player)!.size }))
DaysPlayedOf(entries) ==
    Map(LeaderboardPlayers(entries),
        LAMBDA p : [ player |-> p, value |-> Cardinality(DaysSet(entries, p)) ])

\* rows.sort((a, b) => b.value - a.value): Array.prototype.sort is stable, so
\* a row goes behind every row whose value is not smaller
RECURSIVE InsertByValue(_, _)
InsertByValue(sorted, x) ==
    IF sorted = << >> THEN << x >>
    ELSE IF x.value > Head(sorted).value THEN << x >> \o sorted
    ELSE << Head(sorted) >> \o InsertByValue(Tail(sorted), x)

RECURSIVE SortByValueInto(_, _)
SortByValueInto(sorted, rest) ==
    IF rest = << >> THEN sorted
    ELSE SortByValueInto(InsertByValue(sorted, Head(rest)), Tail(rest))

SortByValue(rows) == SortByValueInto(<< >>, rows)

\* e.Date.toDateString() on a null Date is a TypeError
LeaderboardThrows(entries) == \E i \in 1..Len(entries) : entries[i].Date = NoDate

\* onMounted after `const entries = await loadData()`, lines 288-311:
\* drawBarChart empties its element and appends one svg with a bar per row
LeaderboardDraw(entries) ==
    IF Len(entries) = 0
    THEN /\ thrown' = "none"
         /\ UNCHANGED << leftChart, rightChart >>
    ELSE IF LeaderboardThrows(entries)
    THEN /\ thrown' = "TypeError"
         /\ UNCHANGED << leftChart, rightChart >>
    ELSE /\ leftChart' = SortByValue(TotalsOf(entries))
         /\ rightChart' = SortByValue(DaysPlayedOf(entries))
         /\ thrown' = "none"

\* loadData: if (!props.dataFile) return [];  `entries` is kept in rawData
LeaderboardMounted ==
    /\ comp = "Leaderboard" /\ pc = "unmounted"
    /\ IF dataFile
       THEN /\ pc' = "fetching"
            /\ UNCHANGED << thrown, leftChart, rightChart >>
       ELSE /\ pc' = "done"
            /\ LeaderboardDraw(<< >>)
    /\ UNCHANGED << propVars, fetched, rawData, filterVars, barVars, container, stats >>

LeaderboardFetchResolved ==
    /\ comp = "Leaderboard" /\ pc = "fetching"
    /\ fetched' = "resolved"
    /\ rawData' = ParseRows(csv)
    /\ pc' = "done"
    /\ LeaderboardDraw(rawData')
    /\ UNCHANGED << propVars, filterVars, barVars, container, stats >>

\* catch (e) { console.warn(...); return []; }
LeaderboardFetchRejected ==
    /\ comp = "Leaderboard" /\ pc = "fetching"
    /\ fetched' = "rejected"
    /\ pc' = "done"
    /\ LeaderboardDraw(<< >>)
    /\ UNCHANGED << propVars, rawData, filterVars, barVars, container, stats >>

----------------------------------------------------------------------------
(* GameStats: src/src/components/GameStats.vue *)

GameStatsMounted ==
    /\ comp = "GameStats" /\ pc = "unmounted"
    /\ pc' = "fetching"
    /\ UNCHANGED << propVars, boardVars, fetched, thrown, rawData, filterVars, barVars,
                    container >>

\* the rows are used as they come: no field is parsed
GameStatsFetchResolved ==
    /\ comp = "GameStats" /\ pc = "fetching"
    /\ fetched' = "resolved"
    /\ pc' = "done"
    /\ stats' = [ gamesCount   |-> Len(csv),
                  playersCount |-> Cardinality({ csv[i].Person : i \in 1..Len(csv) }),
                  typesCount   |-> Cardinality({ csv[i].Game : i \in 1..Len(csv) }) ]
    /\ UNCHANGED << propVars, thrown, rawData, filterVars, barVars, container,
                    leftChart, rightChart >>

\* the await throws and nothing catches it
GameStatsFetchRejected ==
    /\ comp = "GameStats" /\ pc = "fetching"
    /\ fetched' = "rejected"
    /\ pc' = "done"
    /\ thrown' = "FetchError"
    /\ UNCHANGED << propVars, boardVars, rawData, filterVars, barVars, container >>

----------------------------------------------------------------------------
(* Inputs of the filtered charts *)

Ann == << 65, 110, 110 >>       \* 'Ann'

Bo == << 66, 111 >>             \* 'Bo'

MaxBreakdownRows == 3

BreakdownRows ==
    [ Date : { << 1, 1, 2025 >> }, Person : { Ann, Bo, All }, Game : { "Chess", "Go" } ]

MaxCalendarRows == 2

\* the first day of a month for every weekday it can fall on and every month
\* length (Sep 2024: Sunday, 30; Jan 2024: Monday, 31; Oct 2024: Tuesday, 31;
\* May 2024: Wednesday, 31; Feb 2024: Thursday, 29; Mar 2024: Friday, 31;
\* Jun 2024: Saturday, 30; Feb 2025: Saturday, 28), the last day of June 2024,
\* and two months that fill their last week exactly (Aug 2024: Thursday, 31,
\* 35 slots; Feb 2026: Sunday, 28, 28 slots)
CalendarDates ==
    { << 9, 1, 2024 >>, << 1, 1, 2024 >>, << 10, 1, 2024 >>, << 5, 1, 2024 >>,
      << 2, 1, 2024 >>, << 3, 1, 2024 >>, << 6, 1, 2024 >>, << 2, 1, 2025 >>,
      << 6, 30, 2024 >>, << 8, 1, 2024 >>, << 2, 1, 2026 >> }

CalendarRows ==
    [ Date : CalendarDates \cup { << >> }, Person : { Ann, Bo }, Game : { "Chess" } ]

----------------------------------------------------------------------------
(* The state after construction, before onMounted runs *)

Fresh ==
    /\ pc = "unmounted"
    /\ fetched = "no"
    /\ thrown = "none"
    /\ rawData = << >>
    /\ players = << >>
    /\ selectedPlayer = All
    /\ selectedIndex = 0
    /\ dailyCounts = << >>
    /\ cumulative = << >>
    /\ container = << >>
    /\ overlay = FALSE
    /\ hover = NoHover
    /\ leftChart = << >>
    /\ rightChart = << >>
    /\ stats = NoStats

InitBars ==
    /\ comp \in { "Trend", "Played", "Daily" }
    /\ dataFile \in (IF comp = "Trend" THEN BOOLEAN ELSE { TRUE })
    /\ csv \in SeqsUpTo(BarRows, MaxBarRows)
    /\ Fresh

NextBars ==
    \/ TrendMounted \/ TrendFetchResolved \/ TrendFetchRejected \/ TrendMouseMove
    \/ PlayedMounted \/ PlayedFetchResolved \/ PlayedFetchRejected \/ PlayedMouseMove
    \/ DailyMounted \/ DailyFetchResolved \/ DailyFetchRejected \/ DailyMouseMove

SpecBars == InitBars /\ [][NextBars]_vars

InitFilter ==
    /\ comp \in { "Breakdown", "Calendar" }
    /\ dataFile \in BOOLEAN
    /\ csv \in (IF ~dataFile THEN { << >> }
                ELSE IF comp = "Breakdown" THEN SeqsUpTo(BreakdownRows, MaxBreakdownRows)
                ELSE SeqsUpTo(CalendarRows, MaxCalendarRows))
    /\ Fresh

NextFilter ==
    \/ BreakdownMounted \/ BreakdownFetchResolved \/ BreakdownFetchRejected
    \/ BreakdownSelect
    \/ CalendarMounted \/ CalendarFetchResolved \/ CalendarFetchRejected
    \/ CalendarSelect

SpecFilter == InitFilter /\ [][NextFilter]_vars

----------------------------------------------------------------------------
(* The leaderboards and the statistics card *)

MaxBoardRows == 4

BoardDates == { << 2, 27, 2025 >>, << 2, 28, 2025 >> }

BoardRows ==
    [ Date : BoardDates \cup { << >> }, Person : { Ann, Bo }, Game : { "Chess" } ]

InitBoard ==
    /\ comp \in { "Leaderboard", "GameStats" }
    /\ dataFile \in (IF comp = "Leaderboard" THEN BOOLEAN ELSE { TRUE })
    /\ csv \in (IF ~dataFile THEN { << >> }
                ELSE IF comp = "Leaderboard" THEN SeqsUpTo(BoardRows, MaxBoardRows)
                ELSE SeqsUpTo(BreakdownRows, MaxBreakdownRows))
    /\ Fresh

NextBoard ==
    \/ LeaderboardMounted \/ LeaderboardFetchResolved \/ LeaderboardFetchRejected
    \/ GameStatsMounted \/ GameStatsFetchResolved \/ GameStatsFetchRejected

SpecBoard == InitBoard /\ [][NextBoard]_vars

----------------------------------------------------------------------------
(* Every component: mounting, the completion of the fetch and the changes  *)
(* of the filter selection, in every order                                 *)

InitLoad == InitBars \/ InitFilter \/ InitBoard

NextLoad ==
    \/ TrendMounted \/ TrendFetchResolved \/ TrendFetchRejected
    \/ PlayedMounted \/ PlayedFetchResolved \/ PlayedFetchRejected
    \/ DailyMounted \/ DailyFetchResolved \/ DailyFetchRejected
    \/ BreakdownMounted \/ BreakdownFetchResolved \/ BreakdownFetchRejected
    \/ BreakdownSelect
    \/ CalendarMounted \/ CalendarFetchResolved \/ CalendarFetchRejected
    \/ CalendarSelect
    \/ LeaderboardMounted \/ LeaderboardFetchResolved \/ LeaderboardFetchRejected
    \/ GameStatsMounted \/ GameStatsFetchResolved \/ GameStatsFetchRejected

SpecLoad == InitLoad /\ [][NextLoad]_vars

----------------------------------------------------------------------------
(* The pie layout on its own: drawChart's donut for the counts of larger    *)
(* files, where a slice can fall below the label threshold                  *)

MaxSlices == 3

PieValues == { 1, 2, 99, 100, 197 }

GameNames == << "Chess", "Go", "Wordle", "Sudoku", "Tetris" >>

\* the counts d3.rollup can give: distinct keys, each value at least 1
PieInputs ==
    { [ i \in 1..Len(v) |-> [ key |-> GameNames[i], value |-> v[i] ] ] :
        v \in UNION { [ 1..k -> PieValues ] : k \in 1..MaxSlices } }

InitPie ==
    /\ comp = "Pie"
    /\ dataFile = TRUE
    /\ csv = << >>
    /\ Fresh

PieDrawn ==
    /\ comp = "Pie"
    /\ \E data \in PieInputs : container' = << DrawPie(<< >>, data) >>
    /\ UNCHANGED << propVars, boardVars, pc, fetched, thrown, rawData, filterVars, barVars >>

NextPie == PieDrawn

SpecPie == InitPie /\ [][NextPie]_vars

----------------------------------------------------------------------------
(* Claims about the bar+line charts (SpecBars) *)

Counts(dc) == Map(dc, LAMBDA d : d.count)

Totals(cu) == Map(cu, LAMBDA c : c.total)

\* the day-bucket builder was handed rawData: the fetch resolved, and in
\* Trend the guard rawData.length > 0 let it through
BuilderCalled ==
    /\ comp \in { "Trend", "Played", "Daily" }
    /\ pc = "done" /\ fetched = "resolved"
    /\ (comp = "Trend" => Len(rawData) > 0)

ValidDates(data) == { data[i].Date : i \in 1..Len(data) } \ { NoDate }

WellFormed(data) == \A i \in 1..Len(data) : data[i].Date # NoDate

\* C1: for every entry set handed to the day-bucket builder, the counts of
\* the day buckets it produces sum to the number of entries of the set.
\* Violated: a row whose Date does not parse stays in rawData with a null
\* Date (C12); alone it yields no bucket at all, beside a dated row it makes
\* the builder throw.
C1_CountsSumToEntries ==
    BuilderCalled => SumSeq(Counts(dailyCounts)) = Len(rawData)

\* What does hold: the sum equals the number of entries when every Date parsed.
C1_WellFormedCountsSum ==
    (BuilderCalled /\ WellFormed(rawData)) => SumSeq(Counts(dailyCounts)) = Len(rawData)

\* C2: the cumulative series has one bucket per day bucket, with the same
\* day index; each total is the sum of the counts up to and including that
\* day; the totals never decrease; the last total is the sum of all counts.
C2_CumulativeIsPrefixSum ==
    /\ Len(cumulative) = Len(dailyCounts)
    /\ \A i \in 1..Len(dailyCounts) :
        /\ cumulative[i].day = dailyCounts[i].day
        /\ cumulative[i].total = SumSeq(Prefix(Counts(dailyCounts), i))
    /\ \A i \in 1..(Len(cumulative) - 1) : cumulative[i].total <= cumulative[i + 1].total
    /\ (cumulative # << >> =>
            cumulative[Len(cumulative)].total = SumSeq(Counts(dailyCounts)))

\* the scenario of the specification: counts [2,0,1] give totals [2,2,3]
C2_Witness ==
    /\ BuilderCalled
    /\ Counts(dailyCounts) = << 2, 0, 1 >>
    /\ Totals(cumulative) = << 2, 2, 3 >>

\* C3: for a non-empty entry set with earliest date minDate and latest date
\* maxDate the builder produces one bucket per calendar day of
\* [minDate, maxDate], day indexes 1..n in date order, each count the number
\* of entries of that day; a single entry gives one bucket with day index 1.
\* Violated: with a dated row and a row whose Date did not parse (C12) the
\* builder throws and produces nothing.
C3_OneBucketPerDay ==
    (BuilderCalled /\ ValidDates(rawData) # {}) =>
        LET minDate == extent(rawData)[1]
            maxDate == extent(rawData)[2]
        IN  /\ Len(dailyCounts) = maxDate - minDate + 1
            /\ \A i \in 1..Len(dailyCounts) :
                /\ dailyCounts[i].day = i
                /\ dailyCounts[i].count =
                     Cardinality({ j \in 1..Len(rawData) : rawData[j].Date = minDate + (i - 1) })
            /\ (Len(rawData) = 1 => Counts(dailyCounts) = << 1 >> )

\* What does hold: the same, when every Date parsed.
C3_WellFormedOneBucketPerDay ==
    (BuilderCalled /\ WellFormed(rawData)) => C3_OneBucketPerDay

\* the centre of band i (1-based): the middle of [x(day), x(day) + bandwidth]
BandCentre(i) ==
    LET lo == xBand(dailyCounts, dailyCounts[i].day)
        hi == lo + Bandwidth(Len(dailyCounts))
    IN  (lo + hi) \div 2

Dist(a, b) == IF a >= b THEN a - b ELSE b - a

Resolved == overlay /\ hover # NoHover

\* C8: a pointer offset exactly at the centre of band i resolves to i.
C8_CentreResolvesToItsBand ==
    Resolved =>
        \A i \in 1..Len(dailyCounts) : hover.mx = BandCentre(i) => hover.idx = i - 1

C8_Witness ==
    /\ Resolved
    /\ Len(dailyCounts) = 3
    /\ hover.mx = BandCentre(2)
    /\ hover.idx = 1

\* the resolved index is one of a closest band centre
ResolvedIsClosest ==
    /\ hover.idx \in 0..(Len(dailyCounts) - 1)
    /\ \A j \in 1..Len(dailyCounts) :
        Dist(hover.mx, BandCentre(hover.idx + 1)) <= Dist(hover.mx, BandCentre(j))

\* the pointer is exactly halfway between the centres of bands i and i + 1
Halfway(i) == 2 * hover.mx = BandCentre(i) + BandCentre(i + 1)

\* C9, as stated: the resolver returns the closest band centre and, halfway
\* between two adjacent centres, the lower of the two indexes.
C9_TieGoesLow ==
    Resolved =>
        /\ ResolvedIsClosest
        /\ \A i \in 1..(Len(dailyCounts) - 1) : Halfway(i) => hover.idx = i - 1

\* C9, amended: the resolver returns the closest band centre and, halfway
\* between two adjacent centres, the higher of the two indexes.
C9_TieGoesHigh ==
    Resolved =>
        /\ ResolvedIsClosest
        /\ \A i \in 1..(Len(dailyCounts) - 1) : Halfway(i) => hover.idx = i

C9_Witness ==
    /\ Resolved
    /\ Len(dailyCounts) = 3
    /\ Halfway(1)
    /\ hover.idx = 1

----------------------------------------------------------------------------
(* Claims about the donut (SpecFilter, SpecPie) *)

\* the donuts in the container
Donuts == { r \in Range(container) : r.kind = "svg" /\ comp \in { "Breakdown", "Pie" } }

Games(entries) == { entries[i].Game : i \in 1..Len(entries) }

FirstSeen(entries, g) == CHOOSE i \in 1..Len(entries) :
    entries[i].Game = g /\ \A j \in 1..(i - 1) : entries[j].Game # g

\* C4: grouping the filtered entries by category gives one {key, value} per
\* category of the input, in first-seen order, the value being the number of
\* entries of the category; no other key appears; the values sum to the
\* number of entries.
C4_GroupCountByCategory ==
    \A r \in Donuts :
        /\ { r.data[i].key : i \in 1..Len(r.data) } = Games(r.from)
        /\ \A i, j \in 1..Len(r.data) :
            i < j => /\ r.data[i].key # r.data[j].key
                     /\ FirstSeen(r.from, r.data[i].key) < FirstSeen(r.from, r.data[j].key)
        /\ \A i \in 1..Len(r.data) :
            r.data[i].value =
                Cardinality({ k \in 1..Len(r.from) : r.from[k].Game = r.data[i].key })
        /\ SumSeq(Map(r.data, LAMBDA d : d.value)) = Len(r.from)

\* the scenario of the specification: Chess, Chess, Go gives [{Chess,2},{Go,1}]
C4_Witness ==
    /\ comp = "Breakdown"
    /\ \E r \in Donuts :
        /\ Map(r.from, LAMBDA d : d.Game) = << "Chess", "Chess", "Go" >>
        /\ r.data = << [ key |-> "Chess", value |-> 2 ], [ key |-> "Go", value |-> 1 ] >>

\* C5: slice i starts where slice i - 1 ends (slice 0 at angle 0), its width
\* is the share value_i / total of the full turn, the slices are in input
\* order, and the spans add up to one full turn.  A full turn is r.total
\* angle units.
C5_SlicesContiguousInInputOrder ==
    \A r \in Donuts :
        /\ Len(r.arcs) = Len(r.data) /\ Len(r.data) > 0
        /\ r.arcs[1].startAngle = 0
        /\ \A i \in 1..Len(r.arcs) :
            /\ r.arcs[i].data = r.data[i]
            /\ i > 1 => r.arcs[i].startAngle = r.arcs[i - 1].endAngle
            /\ (r.arcs[i].endAngle - r.arcs[i].startAngle) * r.total
                 = r.data[i].value * r.total
        /\ SumSeq(Map(r.arcs, LAMBDA a : a.endAngle - a.startAngle)) = r.total
        /\ r.total = SumSeq(Map(r.data, LAMBDA d : d.value))

\* a smaller slice before a larger one keeps its place: [{Chess,1},{Go,2}]
\* gives Chess [0, 1/3 turn) and Go [1/3 turn, full turn)
C5_Witness ==
    \E r \in Donuts :
        /\ Map(r.data, LAMBDA d : d.value) = << 1, 2 >>
        /\ Map(r.arcs, LAMBDA a : << a.startAngle, a.endAngle >>) = << << 0, 1 >>, << 1, 3 >> >>

AtThreshold(r, a) == 100 * a.value >= r.total

ArcPos(r, a) == CHOOSE i \in 1..Len(r.arcs) : r.arcs[i] = a

\* C6: a slice gets a leader line and a label iff value / total >= 1%; the
\* labelled slices keep the input order.
C6_LabelIffAtLeastOnePercent ==
    \A r \in Donuts :
        /\ \A a \in Range(r.arcs) : (a \in Range(r.ready)) <=> AtThreshold(r, a)
        /\ Range(r.ready) \subseteq Range(r.arcs)
        /\ \A i, j \in 1..Len(r.ready) :
            i < j => ArcPos(r, r.ready[i]) < ArcPos(r, r.ready[j])

\* values [1, 2, 197]: 1 is 0.5% (no label), 2 is exactly 1% (label)
C6_Witness ==
    \E r \in Donuts :
        /\ Map(r.data, LAMBDA d : d.value) = << 1, 2, 197 >>
        /\ Map(r.ready, LAMBDA a : a.value) = << 2, 197 >>

----------------------------------------------------------------------------
(* Claims about the calendar grid and the participant filter (SpecFilter) *)

Calendars == { r \in Range(container) : r.kind = "svg" /\ comp = "Calendar" }

\* C7: every day d of 1..daysInMonth has exactly one cell, at
\* row * 7 + col = startWeekday + d - 1, and no two days share a (row, col).
C7_OneCellPerDay ==
    \A r \in Calendars :
        /\ r.grid.startDay \in 0..6
        /\ r.grid.daysInMonth \in 28..31
        /\ \A d \in 1..r.grid.daysInMonth :
            /\ Cardinality({ i \in 1..Len(r.cells) : r.cells[i].day = d }) = 1
            /\ \A i \in 1..Len(r.cells) :
                r.cells[i].day = d =>
                    r.cells[i].row * 7 + r.cells[i].col = r.grid.startDay + d - 1
        /\ \A i \in 1..Len(r.cells) : r.cells[i].day \in 1..r.grid.daysInMonth
        /\ \A i, j \in 1..Len(r.cells) :
            i # j => << r.cells[i].row, r.cells[i].col >> # << r.cells[j].row, r.cells[j].col >>

\* June 2024 starts on a Saturday: day 1 is in row 0, column 6, and day 30
\* in row 5, column 0
C7_Witness ==
    \E r \in Calendars :
        /\ r.grid.startDay = 6 /\ r.grid.daysInMonth = 30
        /\ [ day |-> 1, row |-> 0, col |-> 6, count |-> 0 ] \in Range(r.cells)
        /\ [ day |-> 30, row |-> 5, col |-> 0, count |-> 1 ] \in Range(r.cells)

Loaded == comp \in { "Breakdown", "Calendar" } /\ fetched = "resolved"

Persons(data) == { data[i].Person : i \in 1..Len(data) }

\* the selector offers "All" plus every participant of the loaded rows once,
\* in ascending order
OptionsAreSortedParticipants ==
    /\ Range(players) = Persons(csv)
    /\ \A i \in 1..(Len(players) - 1) : StrLess(players[i], players[i + 1])
    /\ Options(players)[1] = All

\* C10: after the load the selector offers "All" plus every distinct
\* participant once, ascending; with "All" selected the chart is computed
\* from every loaded entry, with participant p selected from exactly the
\* loaded entries whose Person equals p, in their order.
\* Violated: a participant whose name is the text All.  Picking that option
\* stores 'All' in selectedPlayer, which the code takes for the "All" entry.
C10_FilterByParticipant ==
    Loaded =>
        /\ OptionsAreSortedParticipants
        /\ \A r \in Range(container) :
            r.from = IF selectedIndex = 0 THEN rawData
                     ELSE SelectSeq(rawData, LAMBDA d : d.Person = players[selectedIndex])

\* What does hold: the same, for every participant whose name is not All.
C10_FilterByParticipantNotNamedAll ==
    (Loaded /\ (selectedIndex > 0 => players[selectedIndex] # All)) => C10_FilterByParticipant

----------------------------------------------------------------------------
(* Claims about the leaderboards (SpecBoard) *)

\* the entries normalization is meant to give: the rows whose Date parsed
Normalized(data) == SelectSeq(data, LAMBDA d : d.Date # NoDate)

FirstSeenPerson(entries, p) == CHOOSE i \in 1..Len(entries) :
    entries[i].Person = p /\ \A j \in 1..(i - 1) : entries[j].Person # p

\* descending by value, equal values in first-seen order of the participants
RankedFirstSeen(rows, entries) ==
    \A i, j \in 1..Len(rows) :
        i < j => \/ rows[i].value > rows[j].value
                 \/ /\ rows[i].value = rows[j].value
                    /\ FirstSeenPerson(entries, rows[i].player)
                         < FirstSeenPerson(entries, rows[j].player)

OneRowPerParticipant(rows, entries) ==
    /\ { rows[i].player : i \in 1..Len(rows) } = Persons(entries)
    /\ Len(rows) = Cardinality(Persons(entries))

LeaderboardsOf(entries) ==
    /\ OneRowPerParticipant(leftChart, entries)
    /\ OneRowPerParticipant(rightChart, entries)
    /\ \A i \in 1..Len(leftChart) :
        leftChart[i].value =
            Cardinality({ k \in 1..Len(entries) : entries[k].Person = leftChart[i].player })
    /\ \A i \in 1..Len(rightChart) :
        rightChart[i].value =
            Cardinality({ entries[k].Date :
                            k \in { n \in 1..Len(entries) :
                                      entries[n].Person = rightChart[i].player } })
    /\ RankedFirstSeen(leftChart, entries)
    /\ RankedFirstSeen(rightChart, entries)

LeaderboardDone == comp = "Leaderboard" /\ pc = "done"

\* C11: the leaderboards hold one row per distinct participant; 'Total
\* Entries' is the number of entries of the participant, 'Days Played' the
\* number of distinct calendar days on which the participant has an entry;
\* both lists are sorted by value descending, equal values in first-seen
\* order.
\* Violated: a row whose Date does not parse stays among the entries (C12)
\* and e.Date.toDateString() throws before either list is drawn.
C11_LeaderboardsRankParticipants ==
    LeaderboardDone => LeaderboardsOf(Normalized(rawData))

\* What does hold: the same, when every Date parsed.
C11_WellFormedLeaderboards ==
    (LeaderboardDone /\ WellFormed(rawData)) => LeaderboardsOf(rawData)

\* Bo once, Ann twice on one day: Total Entries is [Ann 2, Bo 1], Days Played
\* is [Bo 1, Ann 1] (a tie, Bo was seen first)
C11_WellFormedWitness ==
    /\ LeaderboardDone
    /\ leftChart = << [ player |-> Ann, value |-> 2 ], [ player |-> Bo, value |-> 1 ] >>
    /\ rightChart = << [ player |-> Bo, value |-> 1 ], [ player |-> Ann, value |-> 1 ] >>

----------------------------------------------------------------------------
(* Claims about loading: malformed rows, empty sets, failed fetches *)
(* (SpecLoad, SpecBars)                                              *)

\* the components whose row conversion parses the Date field
ParsesDates == comp \in { "Trend", "Played", "Daily", "Calendar", "Leaderboard" }

BarChart == comp \in { "Trend", "Played", "Daily" }

\* C12: a raw row whose Date does not parse in the M/D/YYYY format is
\* dropped by normalization: it is absent from the entry set, contributes to
\* no count, bucket or calendar cell, and causes no failure in the later
\* aggregation steps; the rows that are well formed are counted as if the
\* malformed row were not in the input.
\* Violated: the row conversions return an entry for every row, with
\* Date = null when the text does not parse; nothing filters these out, and
\* the first getTime() or toDateString() on the null throws.
C12_MalformedRowsDropped ==
    (ParsesDates /\ fetched = "resolved") =>
        /\ WellFormed(rawData)
        /\ rawData = Normalized(ParseRows(csv))
        /\ thrown = "none"
        /\ (BarChart /\ Normalized(ParseRows(csv)) # << >> =>
                SumSeq(Counts(dailyCounts)) = Len(Normalized(ParseRows(csv))))

\* the load is over and left no entry (a fetch that failed is the case of C14)
EmptyEntrySet == pc = "done" /\ fetched # "rejected" /\ rawData = << >>

Placeholder(r) == r.kind = "text" /\ r.from = << >>

\* C13: when the entry set is empty every chart component detects this
\* before it calls the date-range builder or the pie layout, renders a
\* placeholder, and no exception is thrown by mounting, by a filter change
\* or by a later pointer-move event.
\* Violated: GamesPlayed.vue and the bar+line chart of GamesCalendar.vue have
\* no check for an empty rawData; they draw the chart over zero day buckets
\* and install the overlay, and the first pointer move reads cumulative[0].day.
C13_EmptySetGivesPlaceholder ==
    (BarChart /\ EmptyEntrySet) =>
        /\ Len(container) = 1 /\ Placeholder(container[1])
        /\ ~overlay
        /\ thrown = "none"

\* What does hold: part_000 checks rawData.length before the builder and
\* before the overlay is installed.
C13_TrendGivesPlaceholder ==
    (comp = "Trend" /\ EmptyEntrySet) => C13_EmptySetGivesPlaceholder

\* the components that draw into the `chart` element
HasChartElement == comp \in { "Trend", "Played", "Daily", "Breakdown", "Calendar" }

\* C14: when the fetch of the data file fails, every component that loads
\* the file catches the failure, continues with an empty entry set and
\* renders a 'no data' / 'unable to load' state; the rejection never escapes
\* the mount handler.
\* Violated: GamesPlayed.vue, the bar+line chart of GamesCalendar.vue and
\* GameStats.vue await d3.csv outside any try; the rejection leaves the
\* async onMounted callback and nothing is drawn.
C14_FetchFailureCaught ==
    fetched = "rejected" =>
        /\ thrown = "none"
        /\ rawData = << >>
        /\ (HasChartElement => Len(container) = 1 /\ Placeholder(container[1]))
        /\ (comp = "Leaderboard" => leftChart = << >> /\ rightChart = << >>)
        /\ (comp = "GameStats" => stats = NoStats)

\* What does hold: the components that wrap the fetch in try/catch.
C14_CaughtWhereTried ==
    comp \in { "Trend", "Breakdown", "Calendar", "Leaderboard" } => C14_FetchFailureCaught

----------------------------------------------------------------------------
(* Claims about the month of the calendar and its grid (SpecFilter) *)

\* day t lies in the month the grid shows
InShownMonth(r, t) ==
    /\ NewDate(r.grid.year, r.grid.month, 1) <= t
    /\ t < NewDate(r.grid.year, r.grid.month + 1, 1)

\* C15, as stated: the month shown is the month (and year) of the earliest
\* entry of the filtered set, whatever the order of the entries.
\* Violated: drawCalendar takes entries[0]; with a later month first in the
\* file the later month is shown.
C15_MonthOfEarliestEntry ==
    \A r \in Calendars :
        \A i \in 1..Len(r.from) :
            (\A j \in 1..Len(r.from) : r.from[i].Date <= r.from[j].Date)
                => InShownMonth(r, r.from[i].Date)

\* C15, amended: the month shown is the month (and year) of the first entry
\* of the filtered set, in input order.
C15_MonthOfFirstEntry ==
    \A r \in Calendars :
        /\ r.from = IF selectedPlayer = All THEN rawData
                    ELSE SelectSeq(rawData, LAMBDA d : d.Person = selectedPlayer)
        /\ r.grid.month \in 0..11
        /\ InShownMonth(r, r.from[1].Date)

\* 1 Oct 2024 before 1 Jan 2024 in the file: October 2024 is shown
C15_Witness ==
    \E r \in Calendars :
        /\ Map(r.from, LAMBDA d : d.Date) = << NewDate(2024, 9, 1), NewDate(2024, 0, 1) >>
        /\ r.grid.year = 2024 /\ r.grid.month = 9

----------------------------------------------------------------------------
(* Claims about the order of events (SpecLoad, SpecFilter) *)

\* nothing was aggregated, laid out or drawn
NothingDrawn ==
    /\ container = << >>
    /\ dailyCounts = << >> /\ cumulative = << >> /\ ~overlay
    /\ leftChart = << >> /\ rightChart = << >>
    /\ stats = NoStats

\* C16: in every component and every order of mount, fetch completion and
\* filter change, no aggregation or chart layout runs before the initial
\* fetch has completed (resolved or failed); the first chart or placeholder
\* is drawn only after it.  A component mounted without a dataFile starts no
\* fetch and draws its empty state at once.
C16_NothingDrawnBeforeFetchDone ==
    /\ pc \in { "unmounted", "fetching" } => NothingDrawn
    /\ (dataFile /\ ~NothingDrawn) => fetched \in { "resolved", "rejected" }
    /\ fetched = "no" => rawData = << >> /\ players = << >> /\ selectedIndex = 0

\* a donut drawn for the second option, after the fetch resolved
C16_Witness ==
    /\ comp = "Breakdown" /\ pc = "done" /\ fetched = "resolved"
    /\ selectedIndex = 1
    /\ Len(container) = 1 /\ container[1].kind = "svg"

\* the entries the selected <option> stands for: every entry for the first
\* option, the entries of its participant for any other
SelectedEntries(data, ps, k) ==
    IF k = 0 THEN data ELSE SelectSeq(data, LAMBDA d : d.Person = ps[k])

\* a step in which the selection of the <select> changes
FilterChange == selectedIndex' # selectedIndex

\* C17: a filter change leaves the loaded entries and the participant
\* options unchanged, removes the chart drawn before and draws one chart
\* recomputed from the loaded entries: afterwards the container holds exactly
\* one rendering, the one for the participant now selected.
\* Violated: in the calendar a selection that includes a row whose Date did
\* not parse (C12) throws after the container was emptied, so it holds no
\* rendering; and the option of a participant named All (C10) draws the
\* chart of every entry.
C17_FilterChangeRedraws ==
    [][ FilterChange =>
          /\ rawData' = rawData
          /\ players' = players
          /\ Len(container') = 1
          /\ container'[1].from = SelectedEntries(rawData', players', selectedIndex')
          /\ thrown' = "none" ]_vars

\* What does hold: the entries and the options are never touched, and what
\* was drawn before is always removed.
C17_FilterChangeFrame ==
    [][ FilterChange =>
          /\ rawData' = rawData
          /\ players' = players
          /\ Len(container') <= 1
          /\ (Len(container') = 1 =>
                container'[1].from = FilterBy(rawData', selectedPlayer')) ]_vars

CellOf(r, d) == CHOOSE c \in Range(r.cells) : c.day = d

\* C18: the grid has rows = ceil((startWeekday + daysInMonth) / 7) rows and
\* every cell of the days 1..daysInMonth lies inside it: 0 <= col <= 6 and
\* 0 <= row < rows; day 1 is in row 0 at column startWeekday and the last
\* day is in row rows - 1.
C18_CellsInsideGrid ==
    \A r \in Calendars :
        /\ 7 * (r.grid.rows - 1) < r.grid.startDay + r.grid.daysInMonth
        /\ r.grid.startDay + r.grid.daysInMonth <= 7 * r.grid.rows
        /\ \A c \in Range(r.cells) : c.col \in 0..6 /\ c.row \in 0..(r.grid.rows - 1)
        /\ CellOf(r, 1).row = 0 /\ CellOf(r, 1).col = r.grid.startDay
        /\ CellOf(r, r.grid.daysInMonth).row = r.grid.rows - 1

\* August 2024 starts on a Thursday and has 31 days: 35 slots, 5 rows, the
\* 31st in the last column of the last row
C18_Witness ==
    \E r \in Calendars :
        /\ r.grid.startDay = 4 /\ r.grid.daysInMonth = 31 /\ r.grid.rows = 5
        /\ CellOf(r, 31).row = 4 /\ CellOf(r, 31).col = 6

----------------------------------------------------------------------------
(* Claims about the hover index (SpecBars) *)

\* the index the handler resolves for the pointer offset mx
IndexAt(mx) == BisectCenter(Centers(dailyCounts), mx)

\* C19: whenever the pointer-move handler of a bar+line chart can run, for
\* every pointer offset, left of the first band centre and right of the last
\* included, the resolved index is a valid index (0 <= idx < number of day
\* buckets) into the day buckets and into the cumulative list, so the
\* handler never fails.
\* Violated: GamesPlayed.vue and the bar+line chart of GamesCalendar.vue
\* install the overlay over zero day buckets when the entry set is empty
\* (C13) or holds only rows whose Date did not parse (C12); the resolver
\* returns 0 for the empty list of centres and cumulative[0] is undefined.
C19_HoverIndexValid ==
    (BarChart /\ overlay) =>
        /\ \A mx \in PointerOffsets :
            /\ 0 <= IndexAt(mx) /\ IndexAt(mx) < Len(dailyCounts)
            /\ IndexAt(mx) < Len(cumulative)
        /\ thrown # "TypeError"
        /\ (hover # NoHover =>
                /\ hover.barText = dailyCounts[hover.idx + 1].count
                /\ hover.lineText = cumulative[hover.idx + 1].total)

\* What does hold: the index is valid whenever there is a day bucket.
C19_ValidOverSomeBucket ==
    (BarChart /\ overlay /\ dailyCounts # << >>) => C19_HoverIndexValid

====
